---- MODULE Spec2Model ----
(***************************************************************************)
(* Route State Tracker, metrics aggregation and refresh cycle of the      *)
(* Clear Protocol analytics dashboard (src/src/dataService.ts,             *)
(* src/src/App.tsx).                                                       *)
(*                                                                         *)
(* Five specifications over one set of variables:                          *)
(*   Spec         getRouteStatusMetrics called again and again: the route  *)
(*                event log in localStorage;                               *)
(*   SpecPrice    calculateRouteStatus over oracle responses;              *)
(*   SpecMetrics  getAllMetrics over what the chain and the services       *)
(*                answer;                                                  *)
(*   SpecApp      the App: fetchData, what starts it, storage failures.    *)
(*   SpecChain    the App while the chain grows: the age of what the       *)
(*                screen shows.                                            *)
(*                                                                         *)
(* Prices are JavaScript numbers (IEEE-754 binary64).  The module carries  *)
(* a bit-exact model of the floating-point operations the route            *)
(* calculation and the USD conversions perform (integer / power of ten,    *)
(* number * integer, number / integer), each rounded to nearest, ties to   *)
(* even, and of toFixed(2).                                                *)
(***************************************************************************)
EXTENDS Integers, Sequences, FiniteSets, Bags, TLC

\* ------------------------------------------------------------------------
\* IEEE-754 binary64, positive normal numbers.
\* A number is [e |-> E, m |-> bits], bits a sequence of 53 binary digits,
\* most significant first, bits[1] = 1; its value is (bits as integer) * 2^(E-52).
\* ------------------------------------------------------------------------
MantissaBits == 53

\* the arithmetic works on groups of LimbBits binary digits so that every
\* intermediate integer stays below 2^31
LimbBits == 13

\* zero digits appended to a dividend before a division by a small integer
GuardBits == 25

Pow10(n) == 10 ^ n

\* the w binary digits of n, most significant first (n < 2^w)
BitsOf(n, w) == [i \in 1..w |-> (n \div (2 ^ (w - i))) % 2]

RECURSIVE ToInt(_)
ToInt(bits) ==
  IF Len(bits) = 0 THEN 0
  ELSE 2 * ToInt(SubSeq(bits, 1, Len(bits) - 1)) + bits[Len(bits)]

\* number of binary digits of n >= 1
BitLen(n) == CHOOSE b \in 1..30 : 2 ^ (b - 1) <= n /\ n < 2 ^ b

Zeros(n) == [i \in 1..n |-> 0]

StripZeros(bits) ==
  LET ones == {i \in 1..Len(bits) : bits[i] = 1}
  IN IF ones = {} THEN <<>>
     ELSE SubSeq(bits, CHOOSE i \in ones : \A j \in ones : i <= j, Len(bits))

\* bits + 1; carry |-> 1 when the increment overflows the width
IncBits(bits) ==
  LET zs == {i \in 1..Len(bits) : bits[i] = 0}
  IN IF zs = {}
       THEN [carry |-> 1, bits |-> [i \in 1..Len(bits) |-> IF i = 1 THEN 1 ELSE 0]]
       ELSE LET k == CHOOSE i \in zs : \A j \in zs : j <= i
            IN [carry |-> 0,
                bits |-> [i \in 1..Len(bits) |->
                            IF i < k THEN bits[i] ELSE IF i = k THEN 1 ELSE 0]]

\* round to nearest, ties to even: mant is the 53 kept digits, e their exponent,
\* rnd the first dropped digit, sticky whether anything below it is non-zero
RoundNearestEven(mant, e, rnd, sticky) ==
  IF rnd = 1 /\ (sticky \/ mant[MantissaBits] = 1)
    THEN LET inc == IncBits(mant) IN [e |-> e + inc.carry, m |-> inc.bits]
    ELSE [e |-> e, m |-> mant]

\* the number nearest to N * 2^eLow, N given by its digits (no leading zero,
\* at least 53 of them); stickyExtra: a non-zero remainder below the last digit
RoundBits(all, eLow, stickyExtra) ==
  LET n == Len(all)
      mant == SubSeq(all, 1, MantissaBits)
      rnd == IF n > MantissaBits THEN all[MantissaBits + 1] ELSE 0
      sticky == stickyExtra \/ (\E i \in (MantissaBits + 2)..n : all[i] = 1)
  IN RoundNearestEven(mant, eLow + n - 1, rnd, sticky)

\* 3n quotient digits of r / q below the binary point (r < q < 2^28), and the
\* remainder
RECURSIVE DivDigits(_, _, _)
DivDigits(r, q, n) ==
  IF n = 0 THEN [bits |-> <<>>, rem |-> r]
  ELSE LET t == 8 * r
           rest == DivDigits(t % q, q, n - 1)
       IN [bits |-> BitsOf(t \div q, 3) \o rest.bits, rem |-> rest.rem]

\* p / q for positive integers p, q < 2^27 (both exactly representable)
NumDivInts(p, q) ==
  LET lp == BitLen(p)
      lq == BitLen(q)
      p1 == IF lp >= lq THEN p ELSE p * (2 ^ (lq - lp))
      q1 == IF lp >= lq THEN q * (2 ^ (lp - lq)) ELSE q
      ge == p1 >= q1
      pp == IF ge THEN p1 ELSE 2 * p1
      e  == IF ge THEN lp - lq ELSE lp - lq - 1
      d  == DivDigits(pp - q1, q1, 18)
  IN RoundNearestEven(<<1>> \o SubSeq(d.bits, 1, MantissaBits - 1), e,
                      d.bits[MantissaBits], d.bits[MantissaBits + 1] = 1 \/ d.rem # 0)

\* digits of (the first n limbs of bits as integer) * k + carry
RECURSIVE MulLimbs(_, _, _, _)
MulLimbs(bits, n, k, carry) ==
  IF n = 0 THEN BitsOf(carry, LimbBits + 2)
  ELSE LET t == ToInt(SubSeq(bits, (n - 1) * LimbBits + 1, n * LimbBits)) * k + carry
       IN MulLimbs(bits, n - 1, k, t \div (2 ^ LimbBits))
            \o BitsOf(t % (2 ^ LimbBits), LimbBits)

\* x * k for a number x and a positive integer k < 2^14
NumMulInt(x, k) ==
  LET padded == Zeros(5 * LimbBits - MantissaBits) \o x.m
  IN RoundBits(StripZeros(MulLimbs(padded, 5, k, 0)), x.e - (MantissaBits - 1), FALSE)

\* digits of floor((limbs i.. of bits as integer, prefixed by r) / k), and the
\* remainder
RECURSIVE DivLimbs(_, _, _, _)
DivLimbs(bits, i, k, r) ==
  IF i * LimbBits > Len(bits) THEN [bits |-> <<>>, rem |-> r]
  ELSE LET t == r * (2 ^ LimbBits)
                  + ToInt(SubSeq(bits, (i - 1) * LimbBits + 1, i * LimbBits))
           rest == DivLimbs(bits, i + 1, k, t % k)
       IN [bits |-> BitsOf(t \div k, LimbBits) \o rest.bits, rem |-> rest.rem]

\* x / k for a number x and a positive integer k < 2^14
NumDivInt(x, k) ==
  LET d == DivLimbs(x.m \o Zeros(GuardBits), 1, k, 0)
  IN RoundBits(StripZeros(d.bits), x.e - (MantissaBits - 1) - GuardBits, d.rem # 0)

\* x <= y
NumLE(x, y) ==
  IF x.e # y.e THEN x.e < y.e
  ELSE LET df == {i \in 1..MantissaBits : x.m[i] # y.m[i]}
       IN df = {} \/ LET i == CHOOSE i \in df : \A j \in df : i <= j
                     IN x.m[i] < y.m[i]

\* ------------------------------------------------------------------------
\* Oracle prices and route status (dataService.ts)
\* ------------------------------------------------------------------------

\* JavaScript null in a number | null field
Null == -1

\* oracle asset addresses: the two of symbolMap and two it does not know
UsdcAddress == "0x75faf114eafb1bdbe2f0316df893fd58ce46aa4d"

GhoAddress == "0x69cac783c212bfae06e3c1a9a2e6ae6b17ba0614"

UnknownAddressA == "0x1111111111111111111111111111111111111111"

UnknownAddressB == "0x2222222222222222222222222222222222222222"

symbolMap(asset) ==
  IF asset = UsdcAddress THEN "USDC"
  ELSE IF asset = GhoAddress THEN "GHO"
  ELSE "Unknown"

DefaultDepegThreshold == 9995

\* getOraclePrices: rows is the clearOracles array of a response, each row
\* [asset, oracleDecimals, price] with price the integer the oracle reports
RECURSIVE getOraclePrices(_)
getOraclePrices(rows) ==
  IF Len(rows) = 0 THEN <<>>
  ELSE <<[asset    |-> Head(rows).asset,
          price    |-> NumDivInts(Head(rows).price, Pow10(Head(rows).oracleDecimals)),
          decimals |-> Head(rows).oracleDecimals,
          symbol   |-> symbolMap(Head(rows).asset)]>>
         \o getOraclePrices(Tail(rows))

\* the isOpen of the route fromToken -> toToken
IsOpen(fromToken, toToken, depegThreshold) ==
  LET maxFromPrice == NumDivInt(NumMulInt(toToken.price, depegThreshold), 10000)
  IN NumLE(fromToken.price, maxFromPrice)

\* ((toToken.price - fromToken.price) / toToken.price) * 100: the number is
\* determined by its two operands, and they stand for it
DepegPercentage(fromToken, toToken) ==
  [ofPrice |-> fromToken.price, againstPrice |-> toToken.price]

\* thresholdPercent: (10000 - depegThreshold) / 100, for depegThreshold < 10000
ThresholdPercent(depegThreshold) == NumDivInts(10000 - depegThreshold, 100)

\* the route pushed for the entries i and j
RouteOf(oraclePrices, depegThreshold, i, j) ==
  [fromSymbol      |-> oraclePrices[i].symbol,
   toSymbol        |-> oraclePrices[j].symbol,
   fromAsset       |-> oraclePrices[i].asset,
   toAsset         |-> oraclePrices[j].asset,
   isOpen          |-> IsOpen(oraclePrices[i], oraclePrices[j], depegThreshold),
   depegPercentage |-> DepegPercentage(oraclePrices[i], oraclePrices[j]),
   threshold       |-> ThresholdPercent(depegThreshold)]

\* the two loops without "if (i === j) continue"
RECURSIVE RouteLoopAll(_, _, _, _)
RouteLoopAll(oraclePrices, depegThreshold, i, j) ==
  IF i > Len(oraclePrices) THEN <<>>
  ELSE IF j > Len(oraclePrices) THEN RouteLoopAll(oraclePrices, depegThreshold, i + 1, 1)
  ELSE <<RouteOf(oraclePrices, depegThreshold, i, j)>>
         \o RouteLoopAll(oraclePrices, depegThreshold, i, j + 1)

\* the routes pushed by the two nested loops from (i, j) on
RECURSIVE RouteLoop(_, _, _, _)
RouteLoop(oraclePrices, depegThreshold, i, j) ==
  IF i > Len(oraclePrices) THEN <<>>
  ELSE IF j > Len(oraclePrices) THEN RouteLoop(oraclePrices, depegThreshold, i + 1, 1)
  ELSE IF i = j THEN RouteLoop(oraclePrices, depegThreshold, i, j + 1)
  ELSE <<RouteOf(oraclePrices, depegThreshold, i, j)>>
         \o RouteLoop(oraclePrices, depegThreshold, i, j + 1)

calculateRouteStatus(oraclePrices, depegThreshold) ==
  RouteLoop(oraclePrices, depegThreshold, 1, 1)

\* ------------------------------------------------------------------------
\* Route event log (dataService.ts)
\* ------------------------------------------------------------------------

routeNameOf(route) == route.fromSymbol \o " -> " \o route.toSymbol

\* index in events of events.filter(e => e.route === routeName)
\*   .sort((a, b) => b.openedAt - a.openedAt)[0], 0 when there is none.
\* Array.prototype.sort is stable: among records with the greatest openedAt
\* the one first in the array comes first.
LastEvent(events, routeName) ==
  LET own == {i \in 1..Len(events) : events[i].route = routeName}
  IN IF own = {} THEN 0
     ELSE CHOOSE i \in own :
            \A j \in own : \/ events[j].openedAt < events[i].openedAt
                           \/ events[j].openedAt = events[i].openedAt /\ i <= j

CloseEventNoDuration(event, now) ==
  [event EXCEPT !.closedAt = now]

CloseEvent(event, now) ==
  [event EXCEPT !.closedAt = now, !.durationMs = now - event.openedAt]

\* an iteration that puts a new record in front of the log (unshift for push)
ApplyRouteUnshift(events, route, now) ==
  LET routeName == routeNameOf(route)
      last == LastEvent(events, routeName)
  IN IF route.isOpen
       THEN IF last = 0 \/ events[last].closedAt # Null
              THEN <<[id         |-> routeName \o "-" \o ToString(now),
                      route      |-> routeName,
                      openedAt   |-> now,
                      closedAt   |-> Null,
                      durationMs |-> Null]>> \o events
              ELSE events
       ELSE IF last # 0 /\ events[last].closedAt = Null
              THEN [events EXCEPT ![last] = CloseEvent(events[last], now)]
              ELSE events

\* an iteration that closes the last record of a route that is not open
\* without asking whether it is closed already
ApplyRouteReclose(events, route, now) ==
  LET routeName == routeNameOf(route)
      last == LastEvent(events, routeName)
  IN IF route.isOpen
       THEN IF last = 0 \/ events[last].closedAt # Null
              THEN Append(events, [id         |-> routeName \o "-" \o ToString(now),
                                   route      |-> routeName,
                                   openedAt   |-> now,
                                   closedAt   |-> Null,
                                   durationMs |-> Null])
              ELSE events
       ELSE IF last # 0
              THEN [events EXCEPT ![last] = CloseEvent(events[last], now)]
              ELSE events

\* one iteration of the loop of updateRouteEvents
ApplyRoute(events, route, now) ==
  LET routeName == routeNameOf(route)
      last == LastEvent(events, routeName)
  IN IF route.isOpen
       THEN IF last = 0 \/ events[last].closedAt # Null
              THEN Append(events, [id         |-> routeName \o "-" \o ToString(now),
                                   route      |-> routeName,
                                   openedAt   |-> now,
                                   closedAt   |-> Null,
                                   durationMs |-> Null])
              ELSE events
       ELSE IF last # 0 /\ events[last].closedAt = Null
              THEN [events EXCEPT ![last] = CloseEvent(events[last], now)]
              ELSE events

\* the log after the first n routes of currentRoutes
RECURSIVE UpdateFirst(_, _, _, _)
UpdateFirst(existingEvents, currentRoutes, now, n) ==
  IF n = 0 THEN existingEvents
  ELSE ApplyRoute(UpdateFirst(existingEvents, currentRoutes, now, n - 1),
                  currentRoutes[n], now)

\* an update that also closes the unclosed records of the routes that are
\* not among currentRoutes
updateRouteEventsCloseAbsent(existingEvents, currentRoutes, now) ==
  LET events == UpdateFirst(existingEvents, currentRoutes, now, Len(currentRoutes))
      Absent(e) == \A k \in 1..Len(currentRoutes) : routeNameOf(currentRoutes[k]) # e.route
  IN [i \in 1..Len(events) |->
        IF events[i].closedAt = Null /\ Absent(events[i])
          THEN CloseEvent(events[i], now) ELSE events[i]]

updateRouteEvents(existingEvents, currentRoutes, now) ==
  UpdateFirst(existingEvents, currentRoutes, now, Len(currentRoutes))

\* localStorage item 'clear_route_events': absent, or the text JSON.stringify
\* wrote, one tuple of field values per record, in the order of the fields
NoItem == [present |-> FALSE, text |-> <<>>]

RECURSIVE JSONstringify(_)
JSONstringify(events) ==
  IF Len(events) = 0 THEN <<>>
  ELSE <<<<Head(events).id, Head(events).route, Head(events).openedAt,
           Head(events).closedAt, Head(events).durationMs>>>>
         \o JSONstringify(Tail(events))

RECURSIVE JSONparse(_)
JSONparse(text) ==
  IF Len(text) = 0 THEN <<>>
  ELSE <<[id |-> Head(text)[1], route |-> Head(text)[2], openedAt |-> Head(text)[3],
          closedAt |-> Head(text)[4], durationMs |-> Head(text)[5]]>>
         \o JSONparse(Tail(text))

\* a load without the catch block's []: the stored log whenever there is one
loadRouteEventsStale(item, readOk) ==
  IF item.present THEN JSONparse(item.text) ELSE <<>>

\* readOk: the try block runs through (otherwise getItem or JSON.parse throws)
loadRouteEvents(item, readOk) ==
  IF readOk /\ item.present THEN JSONparse(item.text) ELSE <<>>

saveRouteEventsHead(item, events, writeOk) ==
  IF writeOk
    THEN [present |-> TRUE,
          text |-> JSONstringify(IF Len(events) = 0 THEN <<>> ELSE <<Head(events)>>)]
    ELSE item

\* the item after saveRouteEvents; writeOk: localStorage.setItem returns
saveRouteEvents(item, events, writeOk) ==
  IF writeOk THEN [present |-> TRUE, text |-> JSONstringify(events)] ELSE item

\* e.durationMs || 0, summed over events
RECURSIVE SumDurations(_)
SumDurations(events) ==
  IF Len(events) = 0 THEN 0
  ELSE (IF Head(events).durationMs = Null THEN 0 ELSE Head(events).durationMs)
         + SumDurations(Tail(events))

ClosedEventsUnfiltered(updatedEvents) == updatedEvents

ClosedEvents(updatedEvents) ==
  SelectSeq(updatedEvents, LAMBDA e : e.closedAt # Null)

\* averageOpenDurationMs is the quotient num / den, or null
NullAverage == [num |-> Null, den |-> Null]

\* the value getRouteStatusMetrics returns
RouteStatusMetrics(routes, depegThreshold, updatedEvents) ==
  LET closedEvents == ClosedEvents(updatedEvents)
      totalOpenDurationMs == SumDurations(closedEvents)
  IN [routes                |-> routes,
      depegThreshold        |-> depegThreshold,
      anyRouteOpen          |-> \E k \in 1..Len(routes) : routes[k].isOpen,
      routeOpenEvents       |-> updatedEvents,
      totalTimesOpened      |-> Len(updatedEvents),
      averageOpenDurationMs |-> IF Len(closedEvents) > 0
                                  THEN [num |-> totalOpenDurationMs,
                                        den |-> Len(closedEvents)]
                                  ELSE NullAverage,
      totalOpenDurationMs   |-> totalOpenDurationMs]

\* ------------------------------------------------------------------------
\* Metrics aggregation: getAllMetrics and the queries it awaits
\* (dataService.ts)
\* ------------------------------------------------------------------------

\* the number 0, which the positive normal numbers above do not cover
NumZero == [e |-> 0, m |-> <<>>]

NumIsZero(x) == Len(x.m) = 0

\* the number of a non-negative integer p < 2^27
NumOfInt(p) == IF p = 0 THEN NumZero ELSE NumDivInts(p, 1)

\* x * k for a number x >= 0 and an integer 0 <= k < 2^14
NumTimesInt(x, k) == IF NumIsZero(x) \/ k = 0 THEN NumZero ELSE NumMulInt(x, k)

\* n as decimal digits, at least width of them
RECURSIVE PadStart(_, _)
PadStart(n, width) ==
  IF width <= 1 /\ n < 10 THEN ToString(n)
  ELSE PadStart(n \div 10, width - 1) \o ToString(n % 10)

\* the text of an amount of whole cents with two decimals
CentsText(cents) == ToString(cents \div 100) \o "." \o PadStart(cents % 100, 2)

\* Number.prototype.toFixed(2) picks the integer n with n / 100 nearest to the
\* exact value of x, the larger n on a tie: that n, for 0 <= x < 2^21
toFixedCents(x) ==
  IF NumIsZero(x) THEN 0
  ELSE LET digits == MulLimbs(Zeros(5 * LimbBits - MantissaBits) \o x.m, 5, 100, 0)
           shift == (MantissaBits - 1) - x.e
           padded == Zeros(shift + 1) \o digits
           kept == Len(padded) - shift
       IN ToInt(StripZeros(SubSeq(padded, 1, kept))) + padded[kept + 1]

\* x.toFixed(2)
toFixed(x) == CentsText(toFixedCents(x))

\* ethers.formatUnits(value, decimals) of a bigint value >= 0: the whole part,
\* a point, and the decimals digits of the fraction without trailing zeros
\* (one digit at least)
\* the fraction with its trailing zeros kept
FractionTextPadded(fraction, width) == PadStart(fraction, width)

RECURSIVE FractionText(_, _)
FractionText(fraction, width) ==
  IF width > 1 /\ fraction % 10 = 0 THEN FractionText(fraction \div 10, width - 1)
  ELSE PadStart(fraction, width)

formatUnits(value, decimals) ==
  ToString(value \div Pow10(decimals)) \o "."
    \o FractionText(value % Pow10(decimals), decimals)

\* decimals of the IOU token (IOU_DECIMALS)
IOU_DECIMALS == 6

\* Swap amounts (amountIn, iouAmountOut) are 18-decimal bigints; the model
\* counts them in units of 10^16 wei, so that EtherDecimals of the 18 decimals
\* remain and formatEther(value) is formatUnits(value, EtherDecimals)
EtherDecimals == 2

formatEther(value) == formatUnits(value, EtherDecimals)

\* parseFloat(ethers.formatUnits(value, decimals)): the number nearest to
\* value / 10^decimals
parseFloatUnits(value, decimals) ==
  IF value = 0 THEN NumZero ELSE NumDivInts(value, Pow10(decimals))

\* uniqueUsers.add(args.sender), swapUsers.add(swap.receiver): the text as
\* the event carries it
toLowerCaseNone(address) == address

\* String.prototype.toLowerCase on the addresses the events carry
toLowerCase(address) ==
  IF address = "0xAbC0000000000000000000000000000000000001"
    THEN "0xabc0000000000000000000000000000000000001"
  ELSE address

\* new Date(timestamp * 1000).toISOString().split('T')[0]: the UTC calendar
\* day of a Unix time in seconds, as [year, month, day]
CivilDate(timestamp) ==
  LET z == timestamp \div 86400 + 719468
      era == z \div 146097
      doe == z % 146097
      yoe == (doe - doe \div 1460 + doe \div 36524 - doe \div 146096) \div 365
      doy == doe - (365 * yoe + yoe \div 4 - yoe \div 100)
      mp == (5 * doy + 2) \div 153
      month == IF mp < 10 THEN mp + 3 ELSE mp - 9
  IN [year  |-> yoe + era * 400 + (IF month <= 2 THEN 1 ELSE 0),
      month |-> month,
      day   |-> doy - (153 * mp + 2) \div 5 + 1]

\* the text "YYYY-MM-DD" of a calendar day
DateText(date) ==
  PadStart(date.year, 4) \o "-" \o PadStart(date.month, 2) \o "-" \o PadStart(date.day, 2)

\* a.date.localeCompare(b.date) <= 0 for texts "YYYY-MM-DD"
DateBefore(a, b) ==
  \/ a.year < b.year
  \/ a.year = b.year /\ a.month < b.month
  \/ a.year = b.year /\ a.month = b.month /\ a.day <= b.day

\* What the chain and the two HTTP services answer during one call of
\* getAllMetrics is a record rpc:
\*   failed       the methods of the service whose requests throw
\*   latestBlock  provider.getBlockNumber()
\*   swapLogs     the Swap logs with the timestamp of their block, each
\*                [receiver, amountIn, iouAmountOut, timestamp]
\*   mintLogs     the Transfer logs from the zero address, [value, timestamp]
\*   burnLogs     the Transfer logs to the zero address, [value]
\*   vaultLogs    the number of VaultCreated logs
\*   depositLogs  the Deposit logs, [sender, assets]
\*   totalSupply  iou.totalSupply()
\*   ethUsd       the ethereum.usd of the price service
\*   oracleRows   the clearOracles rows
\*   rebalances   the number of rebalance rows
\*   balances     balanceOf(ClearVault) of GHO and USDC, in whole tokens
\*   vaultTokens  the tokens of clearVaults[0], each [symbol, balance,
\*                decimals], balance in whole tokens
Throws(rpc, method) == method \in rpc.failed

\* the value of an async method that returned, and of one that threw
Returned(value) == [ok |-> TRUE, value |-> value]

Thrown == [ok |-> FALSE, value |-> <<>>]

\* try { ... } catch { return [] }
getSwapEvents(rpc) ==
  IF Throws(rpc, "getSwapEvents") THEN <<>> ELSE rpc.swapLogs

RECURSIVE MintEventsOf(_)
MintEventsOf(logs) ==
  IF Len(logs) = 0 THEN <<>>
  ELSE <<[amount |-> Head(logs).value, timestamp |-> Head(logs).timestamp]>>
         \o MintEventsOf(Tail(logs))

getIOUMintEvents(rpc) ==
  IF Throws(rpc, "getIOUMintEvents") THEN Thrown
  ELSE Returned(MintEventsOf(rpc.mintLogs))

\* totalBurned += args.value over the logs
RECURSIVE TotalBurned(_)
TotalBurned(logs) ==
  IF Len(logs) = 0 THEN 0 ELSE TotalBurned(SubSeq(logs, 1, Len(logs) - 1)) + logs[Len(logs)].value

getIOUBurnEvents(rpc) ==
  IF Throws(rpc, "getIOUBurnEvents") THEN Thrown
  ELSE Returned(TotalBurned(rpc.burnLogs))

getVaultCreationEvents(rpc) ==
  IF Throws(rpc, "getVaultCreationEvents") THEN Thrown
  ELSE Returned(rpc.vaultLogs)

\* totalDeposits += args.assets; uniqueUsers.add(args.sender.toLowerCase())
RECURSIVE DepositLoop(_)
DepositLoop(logs) ==
  IF Len(logs) = 0 THEN [totalDeposits |-> 0, uniqueUsers |-> {}]
  ELSE LET before == DepositLoop(SubSeq(logs, 1, Len(logs) - 1))
           args == logs[Len(logs)]
       IN [totalDeposits |-> before.totalDeposits + args.assets,
           uniqueUsers   |-> before.uniqueUsers \cup {toLowerCase(args.sender)}]

getDepositEvents(rpc) ==
  IF Throws(rpc, "getDepositEvents") THEN Thrown
  ELSE Returned(DepositLoop(rpc.depositLogs))

\* try { return await iou.totalSupply() } catch { return 0n }
getIOUTotalSupply(rpc) ==
  IF Throws(rpc, "getIOUTotalSupply") THEN 0 ELSE rpc.totalSupply

\* data.ethereum?.usd || 0, and 0 when the request throws: whole dollars
getEthPrice(rpc) ==
  IF Throws(rpc, "getEthPrice") THEN 0 ELSE rpc.ethUsd

\* getOraclePrices with its request: [] when the request throws
fetchOraclePrices(rpc) ==
  IF Throws(rpc, "getOraclePrices") THEN <<>> ELSE getOraclePrices(rpc.oracleRows)

getRebalanceCount(rpc) ==
  IF Throws(rpc, "getRebalanceCount") THEN 0 ELSE rpc.rebalances

\* the number 1
NumOne == NumOfInt(1)

\* oraclePrices.find(o => o.symbol === symbol)?.price || 1
PriceOrOne(oraclePrices, symbol) ==
  LET found == {i \in 1..Len(oraclePrices) : oraclePrices[i].symbol = symbol}
  IN IF found = {} THEN NumOne
     ELSE oraclePrices[CHOOSE i \in found : \A j \in found : i <= j].price

\* the tokens getReserveBalances reads
ReserveTokens == <<"GHO", "USDC">>

\* the entries getReserveBalances pushes for the tokens from index i on; a
\* token whose balanceOf throws is left out.  The balance is a whole number of
\* tokens, which formatUnits prints with one zero after the point
RECURSIVE ReserveLoop(_, _, _)
ReserveLoop(rpc, oraclePrices, i) ==
  IF i > Len(ReserveTokens) THEN <<>>
  ELSE LET symbol == ReserveTokens[i]
           formattedBalance == ToString(rpc.balances[symbol]) \o ".0"
           price == PriceOrOne(oraclePrices, symbol)
       IN (IF Throws(rpc, "balanceOf " \o symbol) THEN <<>>
           ELSE <<[symbol     |-> symbol,
                   balance    |-> formattedBalance,
                   balanceUSD |-> toFixed(NumTimesInt(price, rpc.balances[symbol]))]>>)
            \o ReserveLoop(rpc, oraclePrices, i + 1)

getReserveBalances(rpc, oraclePrices) == ReserveLoop(rpc, oraclePrices, 1)

\* vault.tokens.map(...): balance is parseFloat(token.balance) / 10^decimals,
\* a whole number of tokens
RECURSIVE AllocationsOf(_, _)
AllocationsOf(tokens, oraclePrices) ==
  IF Len(tokens) = 0 THEN <<>>
  ELSE LET token == Head(tokens)
           price == PriceOrOne(oraclePrices, token.symbol)
       IN <<[symbol     |-> token.symbol,
             balance    |-> ToString(token.balance)
                              \o (IF token.decimals = 6 THEN ".00" ELSE ".0000"),
             balanceUSD |-> toFixed(NumTimesInt(price, token.balance)),
             decimals   |-> token.decimals]>>
            \o AllocationsOf(Tail(tokens), oraclePrices)

\* allocations.reduce((sum, a) => sum + parseFloat(a.balanceUSD), 0) in cents.
\* Every term is a whole number of cents below 2^31 / 100, so the sum of the
\* numbers differs from the exact sum by far less than half a cent and
\* toFixed(2) prints the exact sum
RECURSIVE TotalCents(_, _)
TotalCents(tokens, oraclePrices) ==
  IF Len(tokens) = 0 THEN 0
  ELSE TotalCents(SubSeq(tokens, 1, Len(tokens) - 1), oraclePrices)
         + toFixedCents(NumTimesInt(PriceOrOne(oraclePrices, tokens[Len(tokens)].symbol),
                                    tokens[Len(tokens)].balance))

\* no vault in the response, or the request throws
NoAllocations == [allocations |-> <<>>, totalAssetsUSD |-> "0"]

getVaultTokenAllocations(rpc, oraclePrices) ==
  IF Throws(rpc, "getVaultTokenAllocations") \/ ~rpc.hasVault THEN NoAllocations
  ELSE [allocations    |-> AllocationsOf(rpc.vaultTokens, oraclePrices),
        totalAssetsUSD |-> CentsText(TotalCents(rpc.vaultTokens, oraclePrices))]

\* totalSwapVolume = swap.amountIn in place of +=
SwapStepAssign(totals, swap) ==
  [totalSwapVolume   |-> swap.amountIn,
   totalIOUFromSwaps |-> totals.totalIOUFromSwaps + swap.iouAmountOut,
   swapUsers         |-> totals.swapUsers \cup {toLowerCase(swap.receiver)}]

\* the body of the loop over swapEvents
SwapStep(totals, swap) ==
  [totalSwapVolume   |-> totals.totalSwapVolume + swap.amountIn,
   totalIOUFromSwaps |-> totals.totalIOUFromSwaps + swap.iouAmountOut,
   swapUsers         |-> totals.swapUsers \cup {toLowerCase(swap.receiver)}]

\* totalSwapVolume, totalIOUFromSwaps and swapUsers after the first n swaps
RECURSIVE SwapLoop(_, _)
SwapLoop(swapEvents, n) ==
  IF n = 0 THEN [totalSwapVolume |-> 0, totalIOUFromSwaps |-> 0, swapUsers |-> {}]
  ELSE SwapStep(SwapLoop(swapEvents, n - 1), swapEvents[n])

\* totalIOUMinted after the first n mints
RECURSIVE MintLoop(_, _)
MintLoop(mintEvents, n) ==
  IF n = 0 THEN 0 ELSE MintLoop(mintEvents, n - 1) + mintEvents[n].amount

\* A Map from date to bigint is the sequence of its entries [date, value] in
\* the order of insertion.
\* dailyMap.set(date, amount), dropping what the date held
DailySetOverwrite(dailyMap, date, amount) ==
  LET at == {i \in 1..Len(dailyMap) : dailyMap[i].date = date}
  IN IF at = {} THEN Append(dailyMap, [date |-> date, value |-> amount])
     ELSE [dailyMap EXCEPT ![CHOOSE i \in at : TRUE].value = amount]

\* dailyMap.set(date, (dailyMap.get(date) || 0n) + amount)
DailySet(dailyMap, date, amount) ==
  LET at == {i \in 1..Len(dailyMap) : dailyMap[i].date = date}
  IN IF at = {} THEN Append(dailyMap, [date |-> date, value |-> 0 + amount])
     ELSE LET i == CHOOSE i \in at : TRUE
          IN [dailyMap EXCEPT ![i].value = dailyMap[i].value + amount]

\* dailySwapMap after the first n swaps
RECURSIVE DailySwapLoop(_, _)
DailySwapLoop(swapEvents, n) ==
  IF n = 0 THEN <<>>
  ELSE DailySet(DailySwapLoop(swapEvents, n - 1),
                CivilDate(swapEvents[n].timestamp), swapEvents[n].amountIn)

\* dailyMintMap after the first n mints
RECURSIVE DailyMintLoop(_, _)
DailyMintLoop(mintEvents, n) ==
  IF n = 0 THEN <<>>
  ELSE DailySet(DailyMintLoop(mintEvents, n - 1),
                CivilDate(mintEvents[n].timestamp), mintEvents[n].amount)

\* the entries of the Map left in their order of insertion
SortByDateNone(entries) == entries

\* entries in the order of .sort((a, b) => a.date.localeCompare(b.date)):
\* the dates of a Map are distinct
RECURSIVE SortByDate(_)
SortByDate(entries) ==
  IF Len(entries) = 0 THEN <<>>
  ELSE LET first == CHOOSE i \in 1..Len(entries) :
                      \A j \in 1..Len(entries) : DateBefore(entries[i].date, entries[j].date)
       IN <<entries[first]>>
            \o SortByDate(SubSeq(entries, 1, first - 1)
                            \o SubSeq(entries, first + 1, Len(entries)))

\* (parseFloat(ethers.formatEther(value)) * ethPrice).toFixed(2), for a value
\* with the given number of decimals left
UsdText(value, decimals, ethPrice) ==
  toFixed(NumTimesInt(parseFloatUnits(value, decimals), ethPrice))

RECURSIVE DailySwapVolumeOf(_, _)
DailySwapVolumeOf(entries, ethPrice) ==
  IF Len(entries) = 0 THEN <<>>
  ELSE <<[date      |-> DateText(Head(entries).date),
          volumeUSD |-> UsdText(Head(entries).value, EtherDecimals, ethPrice)]>>
         \o DailySwapVolumeOf(Tail(entries), ethPrice)

RECURSIVE DailyIOUMintedOf(_)
DailyIOUMintedOf(entries) ==
  IF Len(entries) = 0 THEN <<>>
  ELSE <<[date   |-> DateText(Head(entries).date),
          amount |-> formatUnits(Head(entries).value, IOU_DECIMALS)]>>
         \o DailyIOUMintedOf(Tail(entries))

\* getAllMetrics from the return of the two Promise.all to its own return.
\* totals and the two maps are locals; they are carried along for the
\* properties.  totalIOUFromSwaps / 100n divides wei: counted in units of
\* 10^16 wei the quotient keeps two decimals more
ProtocolMetrics(rpc, swapEvents, mintEvents, burnedAmount, vaultCount, depositData, iouSupply, ethPrice, oraclePrices, rebalanceCount) ==
  LET reserveBalances == getReserveBalances(rpc, oraclePrices)
      tokenAllocationData == getVaultTokenAllocations(rpc, oraclePrices)
      totals == SwapLoop(swapEvents, Len(swapEvents))
      totalIOUMinted == MintLoop(mintEvents, Len(mintEvents))
      dailySwapMap == DailySwapLoop(swapEvents, Len(swapEvents))
      dailyMintMap == DailyMintLoop(mintEvents, Len(mintEvents))
      allUsers == depositData.uniqueUsers \cup totals.swapUsers
  IN [totalSwapVolumeUSD  |-> UsdText(totals.totalSwapVolume, EtherDecimals, ethPrice),
      totalIOUMinted      |-> formatUnits(totalIOUMinted, IOU_DECIMALS),
      totalIOUBurned      |-> formatUnits(burnedAmount, IOU_DECIMALS),
      rebalanceVolumeUSD  |-> "0",
      totalValueLockedUSD |-> tokenAllocationData.totalAssetsUSD,
      reserveBalances     |-> reserveBalances,
      tokenAllocations    |-> tokenAllocationData.allocations,
      numberOfVaults      |-> vaultCount,
      numberOfRebalances  |-> rebalanceCount,
      activeUsers         |-> Cardinality(allUsers),
      totalTransactions   |-> Len(swapEvents),
      iouOutstandingSupply |-> formatUnits(iouSupply, IOU_DECIMALS),
      protocolFeesUSD     |-> UsdText(totals.totalIOUFromSwaps, EtherDecimals + 2, ethPrice),
      dailySwapVolume     |-> DailySwapVolumeOf(SortByDate(dailySwapMap), ethPrice),
      dailyIOUMinted      |-> DailyIOUMintedOf(SortByDate(dailyMintMap)),
      oraclePrices        |-> oraclePrices,
      ethPrice            |-> ethPrice,
      lastBlock           |-> rpc.latestBlock,
      totalSwapVolume     |-> totals.totalSwapVolume,
      dailySwapMap        |-> dailySwapMap,
      totalIOUMintedUnits |-> totalIOUMinted,
      dailyMintMap        |-> dailyMintMap]

\* a promise of getAllMetrics that rejected
Rejected == [status |-> "rejected"]

Resolved(value) == [status |-> "resolved", value |-> value]

\* getAllMetrics: getLatestBlock, then Promise.all over the nine queries, which
\* rejects when one of them throws, then the two queries that take oraclePrices
getAllMetrics(rpc) ==
  IF Throws(rpc, "getLatestBlock") THEN Rejected
  ELSE LET mintEvents == getIOUMintEvents(rpc)
           burnedAmount == getIOUBurnEvents(rpc)
           vaultCount == getVaultCreationEvents(rpc)
           depositData == getDepositEvents(rpc)
       IN IF ~(mintEvents.ok /\ burnedAmount.ok /\ vaultCount.ok /\ depositData.ok)
            THEN Rejected
            ELSE Resolved(ProtocolMetrics(rpc, getSwapEvents(rpc), mintEvents.value,
                                          burnedAmount.value, vaultCount.value,
                                          depositData.value, getIOUTotalSupply(rpc),
                                          getEthPrice(rpc), fetchOraclePrices(rpc),
                                          getRebalanceCount(rpc)))

\* ------------------------------------------------------------------------
\* Inputs
\* ------------------------------------------------------------------------

\* Date.now() runs over 1..MaxNow
MaxNow == 2

\* cycles stop growing the log at MaxLog records
MaxLog == 3

\* integer prices an oracle row may carry (8 decimals): 0.998, 0.99860045,
\* 0.9991, 0.9995, 0.9997, 1.0
OraclePrices == {99800000, 99860045, 99910000, 99950000, 99970000, 100000000}

\* the prices the refresh cycles draw from
CyclePrices == {99800000, 100000000}

DepegThresholds == {9990, DefaultDepegThreshold}

\* the assets of a clearOracles response, in the order of the response
AssetLists == {<<>>, <<GhoAddress, UsdcAddress>>, <<UnknownAddressA, UnknownAddressB>>}

\* the oracleDecimals an oracle row may carry
OracleDecimals == {8}

ResponsesOver(assetLists, prices) ==
  UNION {{[i \in 1..Len(assets) |->
             [asset |-> assets[i], oracleDecimals |-> d, price |-> f[i]]]
            : f \in [1..Len(assets) -> prices], d \in OracleDecimals}
           : assets \in assetLists}

\* the asset lists of the route calculation on its own: also one asset, and
\* three
PriceAssetLists ==
  AssetLists \cup {<<GhoAddress>>, <<GhoAddress, UsdcAddress, UnknownAddressA>>}

OracleResponses == ResponsesOver(PriceAssetLists, OraclePrices)

CycleResponses == ResponsesOver(AssetLists, CyclePrices)

\* the responses the App's cycles draw from: no rows, GHO below USDC, USDC
\* below GHO
AppResponses ==
  {r \in ResponsesOver({<<>>, <<GhoAddress, UsdcAddress>>}, CyclePrices) :
     Len(r) > 0 => r[1].price # r[2].price}

\* the route statuses of every response the cycles draw, computed once
CycleRouteTable ==
  {<<r, calculateRouteStatus(getOraclePrices(r), DefaultDepegThreshold)>>
     : r \in CycleResponses}

CycleRoutes(r) == (CHOOSE p \in CycleRouteTable : p[1] = r)[2]

\* getAllMetrics draws at most MaxSwaps Swap logs
MaxSwaps == 2

\* and at most MaxMints mint logs
MaxMints == 2

\* Swap logs: amounts in units of 10^16 wei (1 ether, 2.5 ether), blocks of
\* 2023-11-14 23:59:59 and 2023-11-15 00:00:00 UTC; two receivers, one of them
\* in two spellings
SwapLogs ==
  {[receiver |-> "0xAbC0000000000000000000000000000000000001",
    amountIn |-> 100, iouAmountOut |-> 100, timestamp |-> 1700006399],
   [receiver |-> "0xabc0000000000000000000000000000000000001",
    amountIn |-> 250, iouAmountOut |-> 200, timestamp |-> 1700006399],
   [receiver |-> "0xdef0000000000000000000000000000000000002",
    amountIn |-> 250, iouAmountOut |-> 300, timestamp |-> 1700006400]}

\* mint logs: 1.5 IOU and 0.00025 IOU
MintLogs ==
  {[value |-> 1500000, timestamp |-> 1700006399],
   [value |-> 250, timestamp |-> 1700006400]}

SeqsUpTo(S, n) == UNION {[1..k -> S] : k \in 0..n}

\* the methods whose request may throw in a call: none, or one of them
FailureSets ==
  {{}} \cup {{method} : method \in {"getLatestBlock", "getSwapEvents", "getIOUMintEvents",
                                    "getIOUBurnEvents", "getVaultCreationEvents",
                                    "getDepositEvents", "getEthPrice", "getOraclePrices"}}

\* clearOracles rows: none, GHO at 0.998 and USDC at 1.0, an unknown asset
MetricsOracleRows ==
  {<<>>,
   <<[asset |-> GhoAddress, oracleDecimals |-> 8, price |-> 99800000],
     [asset |-> UsdcAddress, oracleDecimals |-> 8, price |-> 100000000]>>,
   <<[asset |-> UnknownAddressA, oracleDecimals |-> 8, price |-> 99800000]>>}

\* the rest of what the services answer: nothing at all, or some of everything
QuietRest ==
  [latestBlock |-> 1000, burnLogs |-> <<>>, vaultLogs |-> 0, depositLogs |-> <<>>,
   totalSupply |-> 0, ethUsd |-> 2000, rebalances |-> 0,
   balances |-> [GHO |-> 0, USDC |-> 0], hasVault |-> FALSE, vaultTokens |-> <<>>]

BusyRest ==
  [latestBlock |-> 1001,
   burnLogs |-> <<[value |-> 500000]>>,
   vaultLogs |-> 1,
   depositLogs |-> <<[sender |-> "0xAbC0000000000000000000000000000000000001",
                      assets |-> 1000000]>>,
   totalSupply |-> 1000250, ethUsd |-> 2000, rebalances |-> 3,
   balances |-> [GHO |-> 100, USDC |-> 250], hasVault |-> TRUE,
   vaultTokens |-> <<[symbol |-> "GHO", balance |-> 100, decimals |-> 18],
                     [symbol |-> "USDC", balance |-> 250, decimals |-> 6]>>]

ChainAnswer(failed, swapLogs, mintLogs, oracleRows, rest) ==
  [failed |-> failed, swapLogs |-> swapLogs, mintLogs |-> mintLogs,
   oracleRows |-> oracleRows,
   latestBlock |-> rest.latestBlock, burnLogs |-> rest.burnLogs,
   vaultLogs |-> rest.vaultLogs, depositLogs |-> rest.depositLogs,
   totalSupply |-> rest.totalSupply, ethUsd |-> rest.ethUsd,
   rebalances |-> rest.rebalances, balances |-> rest.balances,
   hasVault |-> rest.hasVault, vaultTokens |-> rest.vaultTokens]

ChainAnswers ==
  {ChainAnswer(failed, swapLogs, mintLogs, oracleRows, rest) :
     failed \in FailureSets, swapLogs \in SeqsUpTo(SwapLogs, MaxSwaps),
     mintLogs \in SeqsUpTo(MintLogs, MaxMints), oracleRows \in MetricsOracleRows,
     rest \in {QuietRest, BusyRest}}

VARIABLES
  store,        \* localStorage item 'clear_route_events'
  clock,        \* the last value Date.now() returned
  cycle,        \* the last call of getRouteStatusMetrics: its locals and result
  clearOracles, \* route calculation: the clearOracles rows of the response
  threshold,    \* route calculation: depegThreshold
  routesOut,    \* route calculation: the routes calculateRouteStatus returned
  calls,        \* App: the bag of pending fetchData calls, each at its await
  loading,      \* App: useState loading
  error,        \* App: useState error is not null
  metrics,      \* App: useState metrics: null, or the snapshot set last (its
                \* oraclePrices, as the clearOracles rows behind them)
  chain,        \* aggregation: what the services answered to the last getAllMetrics
  snapshot      \* aggregation: the settled promise of the last getAllMetrics

vars == <<store, clock, cycle, clearOracles, threshold, routesOut,
          calls, loading, error, metrics, chain, snapshot>>

trackerVars == <<store, clock, cycle>>

priceVars == <<clearOracles, threshold, routesOut>>

appVars == <<calls, loading, error, metrics>>

aggVars == <<chain, snapshot>>

\* useState<ProtocolMetrics | null>(null)
NoMetrics == [isNull |-> TRUE, oraclePrices |-> <<>>, lastBlock |-> 0]

\* no call of getAllMetrics yet
NoSnapshot == [status |-> "none"]

NoCycle ==
  [ran |-> FALSE, storedEvents |-> <<>>, now |-> 0, read |-> TRUE, saved |-> FALSE,
   lastBlock |-> 0,
   metrics |-> RouteStatusMetrics(<<>>, DefaultDepegThreshold, <<>>)]

NoRoutes == [done |-> FALSE, routes |-> <<>>]

\* fetchData calls that can be pending at once
MaxCalls == 2

\* the App's cycles stop growing the log at MaxAppLog records
MaxAppLog == 2

\* the App's Date.now() runs over 1..MaxAppNow
MaxAppNow == 1

\* the chain grows up to the height MaxBlock while the App runs
MaxBlock == 1001

\* the heights of the chain, from that of the first call on
Blocks == QuietRest.latestBlock..MaxBlock

\* a call of fetchData waiting for getAllMetrics; getBlockNumber, its first
\* request, is answered with the height b the chain has when the call starts
AwaitAllMetrics(b) == [pc |-> "getAllMetrics", oraclePrices |-> <<>>, lastBlock |-> b]

\* a call waiting in getRouteStatusMetrics for getDepegThreshold, given the
\* clearOracles rows behind the oraclePrices it was passed and the lastBlock
\* of the snapshot they belong to
AwaitDepegThreshold(r, b) == [pc |-> "getDepegThreshold", oraclePrices |-> r, lastBlock |-> b]

\* ------------------------------------------------------------------------
\* Route tracking cycles: getRouteStatusMetrics, one call after the other
\* ------------------------------------------------------------------------

\* a cycle that had read the log when the cycle before it did, and writes its
\* update of that copy back now
GetRouteStatusMetricsStaleRead(routes, depegThreshold, now, readOk, writeOk, maxLen, lastBlock) ==
  LET storedEvents == IF cycle.ran THEN cycle.storedEvents
                      ELSE loadRouteEvents(store, readOk)
      updatedEvents == updateRouteEvents(storedEvents, routes, now)
  IN /\ Len(updatedEvents) <= maxLen
     /\ clock' = now
     /\ store' = saveRouteEvents(store, updatedEvents, writeOk)
     /\ cycle' = [ran |-> TRUE, storedEvents |-> storedEvents, now |-> now,
                  read |-> readOk, saved |-> writeOk, lastBlock |-> lastBlock,
                  metrics |-> RouteStatusMetrics(routes, depegThreshold, updatedEvents)]

\* getRouteStatusMetrics from the return of getDepegThreshold to its own return
GetRouteStatusMetrics(routes, depegThreshold, now, readOk, writeOk, maxLen, lastBlock) ==
  LET storedEvents == loadRouteEvents(store, readOk)
      updatedEvents == updateRouteEvents(storedEvents, routes, now)
  IN /\ Len(updatedEvents) <= maxLen
     /\ clock' = now
     /\ store' = saveRouteEvents(store, updatedEvents, writeOk)
     /\ cycle' = [ran |-> TRUE, storedEvents |-> storedEvents, now |-> now,
                  read |-> readOk, saved |-> writeOk, lastBlock |-> lastBlock,
                  metrics |-> RouteStatusMetrics(routes, depegThreshold, updatedEvents)]

RouteCycle ==
  /\ \E r \in CycleResponses, now \in clock..MaxNow :
       GetRouteStatusMetrics(CycleRoutes(r), DefaultDepegThreshold, now, TRUE, TRUE,
                             MaxLog, chain.latestBlock)
  /\ UNCHANGED <<priceVars, appVars, aggVars>>

Init ==
  /\ store = NoItem
  /\ clock = 1
  /\ cycle = NoCycle
  /\ clearOracles = <<>>
  /\ threshold = DefaultDepegThreshold
  /\ routesOut = NoRoutes
  /\ calls = EmptyBag
  /\ loading = TRUE
  /\ error = FALSE
  /\ metrics = NoMetrics
  /\ chain = ChainAnswer({}, <<>>, <<>>, <<>>, QuietRest)
  /\ snapshot = NoSnapshot

Next == RouteCycle

Spec == Init /\ [][Next]_vars

\* ------------------------------------------------------------------------
\* Route calculation on its own: calculateRouteStatus over oracle responses
\* ------------------------------------------------------------------------

ReceiveResponse ==
  /\ \E r \in OracleResponses, t \in DepegThresholds :
       /\ clearOracles' = r
       /\ threshold' = t
  /\ routesOut' = NoRoutes
  /\ UNCHANGED <<trackerVars, appVars, aggVars>>

CalculateRoutes ==
  /\ ~routesOut.done
  /\ routesOut' = [done |-> TRUE,
                   routes |-> calculateRouteStatus(getOraclePrices(clearOracles), threshold)]
  /\ UNCHANGED <<trackerVars, appVars, aggVars, clearOracles, threshold>>

NextPrice == ReceiveResponse \/ CalculateRoutes

SpecPrice == Init /\ [][NextPrice]_vars

\* ------------------------------------------------------------------------
\* Aggregation on its own: getAllMetrics over what the services answer
\* ------------------------------------------------------------------------

\* the services hold their answers; getAllMetrics has not been called
InitMetrics ==
  /\ store = NoItem
  /\ clock = 1
  /\ cycle = NoCycle
  /\ clearOracles = <<>>
  /\ threshold = DefaultDepegThreshold
  /\ routesOut = NoRoutes
  /\ calls = EmptyBag
  /\ loading = TRUE
  /\ error = FALSE
  /\ metrics = NoMetrics
  /\ chain \in ChainAnswers
  /\ snapshot = NoSnapshot

\* one call of getAllMetrics, from its first line to its settled promise
GetAllMetrics ==
  /\ snapshot = NoSnapshot
  /\ snapshot' = getAllMetrics(chain)
  /\ UNCHANGED <<trackerVars, priceVars, appVars, chain>>

NextMetrics == GetAllMetrics

SpecMetrics == InitMetrics /\ [][NextMetrics]_vars

\* ------------------------------------------------------------------------
\* The App: fetchData and what starts it (App.tsx)
\* ------------------------------------------------------------------------

\* fetchData up to its first await
FetchData ==
  /\ BagCardinality(calls) < MaxCalls
  /\ calls' = calls (+) SetToBag({AwaitAllMetrics(chain.latestBlock)})
  /\ loading' = TRUE
  /\ error' = FALSE
  /\ UNCHANGED <<metrics, priceVars, aggVars>>

\* the routeStatus of the App is the result of the last completed cycle
routeStatusSet == cycle.ran

\* setInterval(fetchData, 30000)
IntervalTick ==
  /\ FetchData
  /\ UNCHANGED trackerVars

\* the Refresh button of the header
ClickRefresh ==
  /\ ~metrics.isNull
  /\ ~loading
  /\ FetchData
  /\ UNCHANGED trackerVars

\* the Retry button of the error screen
ClickRetry ==
  /\ ~(loading /\ metrics.isNull)
  /\ error /\ metrics.isNull
  /\ FetchData
  /\ UNCHANGED trackerVars

\* clearRouteHistory, the Clear History button: the main screen renders it
\* under the route-status tab (which the operator may select at any time) once
\* routeStatus is set
ClickClearHistory ==
  /\ ~metrics.isNull
  /\ routeStatusSet
  /\ store' = NoItem
  /\ FetchData
  /\ UNCHANGED <<clock, cycle>>

\* getAllMetrics resolves; fetchData runs on into getRouteStatusMetrics, up to
\* the await of getDepegThreshold
GetAllMetricsResolve ==
  \E r \in AppResponses, b \in Blocks :
    /\ BagIn(AwaitAllMetrics(b), calls)
    /\ calls' = (calls (-) SetToBag({AwaitAllMetrics(b)}))
                  (+) SetToBag({AwaitDepegThreshold(r, b)})
    /\ metrics' = [isNull |-> FALSE, oraclePrices |-> r, lastBlock |-> b]
    /\ UNCHANGED <<trackerVars, priceVars, aggVars, loading, error>>

\* a catch block that also blanked the screen: setMetrics(null)
GetAllMetricsRejectBlank ==
  /\ \E b \in Blocks :
       /\ BagIn(AwaitAllMetrics(b), calls)
       /\ calls' = calls (-) SetToBag({AwaitAllMetrics(b)})
  /\ error' = TRUE
  /\ loading' = FALSE
  /\ metrics' = NoMetrics
  /\ UNCHANGED <<trackerVars, priceVars, aggVars>>

\* getAllMetrics rejects (getLatestBlock throws, or one of the queries that
\* catch nothing); catch and finally of fetchData
GetAllMetricsReject ==
  /\ \E b \in Blocks :
       /\ BagIn(AwaitAllMetrics(b), calls)
       /\ calls' = calls (-) SetToBag({AwaitAllMetrics(b)})
  /\ error' = TRUE
  /\ loading' = FALSE
  /\ UNCHANGED <<trackerVars, priceVars, aggVars, metrics>>

\* getDepegThreshold returns (the default threshold); getRouteStatusMetrics
\* runs to its return and fetchData to its end.  readOk, writeOk: whether the
\* try blocks of loadRouteEvents and saveRouteEvents run through
GetRouteStatusMetricsReturn ==
  \E r \in AppResponses, b \in Blocks, t \in clock..MaxAppNow,
     readOk \in BOOLEAN, writeOk \in BOOLEAN :
    /\ BagIn(AwaitDepegThreshold(r, b), calls)
    /\ GetRouteStatusMetrics(CycleRoutes(r), DefaultDepegThreshold, t, readOk, writeOk,
                             MaxAppLog, b)
    /\ calls' = calls (-) SetToBag({AwaitDepegThreshold(r, b)})
    /\ loading' = FALSE
    /\ UNCHANGED <<priceVars, aggVars, error, metrics>>

\* the App after mounting: the effect has called fetchData
InitApp ==
  /\ chain = ChainAnswer({}, <<>>, <<>>, <<>>, QuietRest)
  /\ store = NoItem
  /\ clock = 1
  /\ cycle = NoCycle
  /\ clearOracles = <<>>
  /\ threshold = DefaultDepegThreshold
  /\ routesOut = NoRoutes
  /\ calls = SetToBag({AwaitAllMetrics(chain.latestBlock)})
  /\ loading = TRUE
  /\ error = FALSE
  /\ metrics = NoMetrics
  /\ snapshot = NoSnapshot

NextApp ==
  \/ IntervalTick
  \/ ClickRefresh
  \/ ClickRetry
  \/ ClickClearHistory
  \/ GetAllMetricsResolve
  \/ GetAllMetricsReject
  \/ GetRouteStatusMetricsReturn

SpecApp == InitApp /\ [][NextApp]_vars

\* a block is added to the chain
NewBlock ==
  /\ chain.latestBlock < MaxBlock
  /\ chain' = [chain EXCEPT !.latestBlock = chain.latestBlock + 1]
  /\ UNCHANGED <<trackerVars, priceVars, appVars, snapshot>>

\* the App on a chain that grows while it runs
NextChain ==
  \/ NewBlock
  \/ IntervalTick
  \/ ClickRefresh
  \/ ClickRetry
  \/ ClickClearHistory
  \/ GetAllMetricsResolve
  \/ GetAllMetricsReject
  \/ GetRouteStatusMetricsReturn

SpecChain == InitApp /\ [][NextChain]_vars

\* ------------------------------------------------------------------------
\* Properties of the route event log
\* ------------------------------------------------------------------------

\* the persisted log
Log == loadRouteEvents(store, TRUE)

IsUnclosed(event) == event.closedAt = Null

\* the route names of a route list are pairwise distinct
DistinctNames(routeList) ==
  \A j, k \in 1..Len(routeList) :
    routeNameOf(routeList[j]) = routeNameOf(routeList[k]) => j = k

\* C1: after any sequence of route-tracking cycles from an empty log, with
\* non-decreasing now, every route name has at most one record in the persisted
\* log whose closedAt is null.
C1_AtMostOneUnclosed ==
  \A i, j \in 1..Len(Log) :
    (Log[i].route = Log[j].route /\ IsUnclosed(Log[i]) /\ IsUnclosed(Log[j])) => i = j

\* C2: for every reachable log and every list of current routes (each route
\* name once), applying updateRouteEvents a second time with the same routes
\* and the same now leaves the log of the first application unchanged.
C2_UpdateIdempotent ==
  \A r \in CycleResponses, t \in clock..MaxNow :
    DistinctNames(CycleRoutes(r)) =>
      LET once == updateRouteEvents(Log, CycleRoutes(r), t)
      IN updateRouteEvents(once, CycleRoutes(r), t) = once

DurationMatches(event) ==
  /\ event.durationMs # Null <=> event.closedAt # Null
  /\ event.closedAt # Null => event.durationMs = event.closedAt - event.openedAt

\* C3: in every log reachable by update cycles from an empty log (the persisted
\* one and the one a cycle returns), a record has durationMs set exactly when
\* closedAt is set, and then durationMs = closedAt - openedAt.
C3_DurationIffClosed ==
  /\ \A i \in 1..Len(Log) : DurationMatches(Log[i])
  /\ \A i \in 1..Len(cycle.metrics.routeOpenEvents) :
       DurationMatches(cycle.metrics.routeOpenEvents[i])

\* C3 witness: the log holds a record closed after a positive time and a record
\* still open.
C3_Witness ==
  /\ \E i \in 1..Len(Log) : Log[i].closedAt # Null /\ Log[i].durationMs > 0
  /\ \E i \in 1..Len(Log) : IsUnclosed(Log[i])

\* C4: after a cycle whose routes carry pairwise distinct names, a route of
\* the cycle has an unclosed record in the persisted log exactly when its
\* isOpen held in the cycle.
C4_UnclosedIffOpen ==
  (cycle.ran /\ DistinctNames(cycle.metrics.routes)) =>
    \A k \in 1..Len(cycle.metrics.routes) :
      LET route == cycle.metrics.routes[k]
      IN (\E i \in 1..Len(Log) :
            Log[i].route = routeNameOf(route) /\ IsUnclosed(Log[i]))
           <=> route.isOpen

\* the integer price the oracle row of asset carries
RowPrice(asset) ==
  LET i == CHOOSE i \in 1..Len(clearOracles) : clearOracles[i].asset = asset
  IN clearOracles[i].price

\* pFrom / 10^d <= (pTo / 10^d) * bps / 10000 over the rationals, for integer
\* prices of equal decimals d (no product above 2^31)
ExactWithinThreshold(pFrom, pTo, bps) ==
  pFrom <= (pTo \div 10000) * bps + ((pTo % 10000) * bps) \div 10000

\* C5: for every ordered pair of price entries, calculateRouteStatus reports
\* isOpen exactly when price(from) <= price(to) * thresholdBps / 10000, the
\* boundary counting as open.
C5_OpenIffWithinThreshold ==
  routesOut.done =>
    \A k \in 1..Len(routesOut.routes) :
      LET route == routesOut.routes[k]
      IN route.isOpen <=>
           ExactWithinThreshold(RowPrice(route.fromAsset), RowPrice(route.toAsset),
                                threshold)

\* C6: within a cycle, evaluating a route never changes a record that the
\* evaluation of a route of a different ordered asset pair created earlier in
\* that cycle.
C6_RoutesIndependent ==
  cycle.ran =>
    LET routeList == cycle.metrics.routes
        LogAfter(n) == UpdateFirst(cycle.storedEvents, routeList, cycle.now, n)
    IN \A j, k \in 1..Len(routeList) :
         (j < k /\ Len(LogAfter(j)) > Len(LogAfter(j - 1))) =>
           \/ /\ routeList[j].fromAsset = routeList[k].fromAsset
              /\ routeList[j].toAsset = routeList[k].toAsset
           \/ LogAfter(k)[Len(LogAfter(j))] = LogAfter(k - 1)[Len(LogAfter(j))]

\* the sum of durationMs over the records of events at the indices in S
RECURSIVE SumAt(_, _)
SumAt(events, S) ==
  IF S = {} THEN 0
  ELSE LET i == CHOOSE i \in S : TRUE
       IN events[i].durationMs + SumAt(events, S \ {i})

\* C7: the averageOpenDurationMs a cycle returns is the sum of durationMs over
\* the closed records divided by their number, null when none is closed;
\* totalOpenDurationMs is that sum; totalTimesOpened counts every record.
C7_StatsOverClosed ==
  cycle.ran =>
    LET m == cycle.metrics
        closed == {i \in 1..Len(m.routeOpenEvents) :
                     m.routeOpenEvents[i].closedAt # Null}
        total == SumAt(m.routeOpenEvents, closed)
    IN /\ m.totalOpenDurationMs = total
       /\ m.averageOpenDurationMs =
            IF closed = {} THEN NullAverage
            ELSE [num |-> total, den |-> Cardinality(closed)]
       /\ m.totalTimesOpened = Len(m.routeOpenEvents)

\* C7 witness: a cycle returned a log with a record closed after a positive
\* time and a record still open.
C7_Witness ==
  /\ cycle.ran
  /\ \E i \in 1..Len(cycle.metrics.routeOpenEvents) :
       /\ cycle.metrics.routeOpenEvents[i].closedAt # Null
       /\ cycle.metrics.routeOpenEvents[i].durationMs > 0
  /\ \E i \in 1..Len(cycle.metrics.routeOpenEvents) :
       IsUnclosed(cycle.metrics.routeOpenEvents[i])

\* events holds a record of the route name with closedAt null
HasUnclosed(events, routeName) ==
  \E i \in 1..Len(events) : events[i].route = routeName /\ IsUnclosed(events[i])

\* the log of the last cycle after the first n routes of its loop
CycleLogAfter(n) ==
  UpdateFirst(cycle.storedEvents, cycle.metrics.routes, cycle.now, n)

\* C18: when a route is open and the log holds no unclosed record of it, its
\* turn in the loop of updateRouteEvents appends one record of the route with
\* openedAt = now, closedAt = null, durationMs = null behind all records and
\* changes none of them; in a cycle whose route names are distinct the log
\* returned holds that record as the only new one of the route, and the
\* route's earlier records as they were.
C18_OpenAppendsOneRecord ==
  cycle.ran =>
    LET routeList == cycle.metrics.routes
        after == cycle.metrics.routeOpenEvents
    IN \A k \in 1..Len(routeList) :
         LET routeName == routeNameOf(routeList[k])
             before == CycleLogAfter(k - 1)
             new == {i \in (Len(cycle.storedEvents) + 1)..Len(after) :
                       after[i].route = routeName}
         IN /\ (routeList[k].isOpen /\ ~HasUnclosed(before, routeName)) =>
                 /\ Len(CycleLogAfter(k)) = Len(before) + 1
                 /\ SubSeq(CycleLogAfter(k), 1, Len(before)) = before
                 /\ LET pushed == CycleLogAfter(k)[Len(before) + 1]
                    IN /\ pushed.route = routeName
                       /\ pushed.openedAt = cycle.now
                       /\ pushed.closedAt = Null
                       /\ pushed.durationMs = Null
            /\ (/\ DistinctNames(routeList)
                /\ routeList[k].isOpen
                /\ ~HasUnclosed(cycle.storedEvents, routeName)) =>
                 /\ Cardinality(new) = 1
                 /\ \A i \in new : /\ after[i].openedAt = cycle.now
                                    /\ after[i].closedAt = Null
                                    /\ after[i].durationMs = Null
                 /\ \A i \in 1..Len(cycle.storedEvents) :
                      cycle.storedEvents[i].route = routeName =>
                        after[i] = cycle.storedEvents[i]

\* C18 witness: a cycle found closed records only and pushed a record for an
\* open route behind them.
C18_Witness ==
  /\ cycle.ran
  /\ Len(cycle.storedEvents) > 0
  /\ \A i \in 1..Len(cycle.storedEvents) : ~IsUnclosed(cycle.storedEvents[i])
  /\ Len(cycle.metrics.routeOpenEvents) = Len(cycle.storedEvents) + 1
  /\ IsUnclosed(cycle.metrics.routeOpenEvents[Len(cycle.storedEvents) + 1])
  /\ cycle.metrics.routeOpenEvents[Len(cycle.storedEvents) + 1].openedAt = cycle.now

\* C19: when a route is not open and the log holds an unclosed record of it,
\* its turn in the loop closes that record with closedAt = now and
\* durationMs = now - openedAt, changes nothing else and appends nothing.
C19_NotOpenClosesRecord ==
  cycle.ran =>
    \A k \in 1..Len(cycle.metrics.routes) :
      LET routeName == routeNameOf(cycle.metrics.routes[k])
          before == CycleLogAfter(k - 1)
      IN (~cycle.metrics.routes[k].isOpen /\ HasUnclosed(before, routeName)) =>
           \E i \in 1..Len(before) :
             /\ before[i].route = routeName /\ IsUnclosed(before[i])
             /\ CycleLogAfter(k) =
                  [before EXCEPT ![i] = [before[i] EXCEPT
                                           !.closedAt = cycle.now,
                                           !.durationMs = cycle.now - before[i].openedAt]]

\* C20: the turn of a route leaves the log unchanged when the route is open
\* and an unclosed record of it exists, and when the route is not open and
\* no unclosed record of it exists.
C20_NoOpCasesKeepLog ==
  cycle.ran =>
    \A k \in 1..Len(cycle.metrics.routes) :
      LET routeName == routeNameOf(cycle.metrics.routes[k])
          before == CycleLogAfter(k - 1)
      IN (cycle.metrics.routes[k].isOpen <=> HasUnclosed(before, routeName)) =>
           CycleLogAfter(k) = before

\* the routes calculateRouteStatus returns for the two entries i and j alone,
\* in this order: the first of them is the route i -> j
PairRoutes(i, j) ==
  calculateRouteStatus(getOraclePrices(<<clearOracles[i], clearOracles[j]>>), threshold)

\* C21: for N price entries calculateRouteStatus returns N * (N - 1) routes,
\* exactly one for every ordered pair of distinct entries and none from an
\* entry to itself; the isOpen and depegPercentage of the route i -> j are
\* those computed from the entries i and j alone with the same threshold.
C21_OneRoutePerOrderedPair ==
  routesOut.done =>
    LET n == Len(clearOracles)
        routes == routesOut.routes
        At(i, j) == {k \in 1..Len(routes) :
                       /\ routes[k].fromAsset = clearOracles[i].asset
                       /\ routes[k].toAsset = clearOracles[j].asset}
    IN /\ Len(routes) = n * (n - 1)
       /\ \A i \in 1..n : At(i, i) = {}
       /\ \A i, j \in 1..n :
            i # j =>
              /\ Cardinality(At(i, j)) = 1
              /\ \A k \in At(i, j) :
                   /\ routes[k].isOpen = PairRoutes(i, j)[1].isOpen
                   /\ routes[k].depegPercentage = PairRoutes(i, j)[1].depegPercentage

\* C21 witness: three entries gave six routes, some open and some not.
C21_Witness ==
  /\ routesOut.done
  /\ Len(clearOracles) = 3
  /\ Len(routesOut.routes) = 6
  /\ \E k \in 1..6 : routesOut.routes[k].isOpen
  /\ \E k \in 1..6 : ~routesOut.routes[k].isOpen

\* C26: the log an update cycle returns and stores keeps every record of the
\* log it read at its position with its id, route and openedAt (none is
\* removed or moved), and a record whose closedAt was set is the same record
\* afterwards: openedAt, closedAt and durationMs unchanged.
C26_AppendOnlyClosedImmutable ==
  cycle.ran =>
    LET before == cycle.storedEvents
        after == cycle.metrics.routeOpenEvents
    IN /\ Log = after
       /\ \A i \in 1..Len(before) :
            /\ i <= Len(after)
            /\ after[i].id = before[i].id
            /\ after[i].route = before[i].route
            /\ after[i].openedAt = before[i].openedAt
            /\ before[i].closedAt # Null =>
                 /\ after[i].closedAt = before[i].closedAt
                 /\ after[i].durationMs = before[i].durationMs

\* C26 witness: a later cycle found a closed record, whose route was not open
\* at that later time, and appended a record behind it.
C26_Witness ==
  /\ cycle.ran
  /\ Len(Log) > Len(cycle.storedEvents)
  /\ \E i \in 1..Len(cycle.storedEvents) :
       /\ cycle.storedEvents[i].closedAt # Null
       /\ cycle.storedEvents[i].closedAt < cycle.now
       /\ Log[i] = cycle.storedEvents[i]
       /\ \E k \in 1..Len(cycle.metrics.routes) :
            /\ routeNameOf(cycle.metrics.routes[k]) = Log[i].route
            /\ ~cycle.metrics.routes[k].isOpen

\* C27: after any sequence of update cycles with non-decreasing now, no two
\* records of the log have the same id.
C27_UniqueIds ==
  \A i, j \in 1..Len(Log) : Log[i].id = Log[j].id => i = j

\* C30: no oracle rows (the request failed or returned none) give no routes;
\* a cycle without routes reports anyRouteOpen = false and returns and stores
\* the log it read, open records still open; and in every cycle the records
\* of the routes that are not among the cycle's routes (an asset of theirs
\* has no price) are left as they were.
C30_NoPricesNoChange ==
  /\ calculateRouteStatus(getOraclePrices(<<>>), DefaultDepegThreshold) = <<>>
  /\ cycle.ran =>
       LET routes == cycle.metrics.routes
           before == cycle.storedEvents
           after == cycle.metrics.routeOpenEvents
       IN /\ Log = after
          /\ routes = <<>> => (~cycle.metrics.anyRouteOpen /\ after = before)
          /\ \A i \in 1..Len(before) :
               (\A k \in 1..Len(routes) : routeNameOf(routes[k]) # before[i].route) =>
                 after[i] = before[i]

\* C30 witness: the last cycle had no routes and the record that was open
\* before it is still open in the store.
C30_Witness ==
  /\ cycle.ran
  /\ cycle.metrics.routes = <<>>
  /\ ~cycle.metrics.anyRouteOpen
  /\ Log = cycle.storedEvents
  /\ \E i \in 1..Len(Log) : IsUnclosed(Log[i]) /\ Log[i].openedAt < cycle.now

\* ------------------------------------------------------------------------
\* Properties of the App's cycles
\* ------------------------------------------------------------------------

\* C8: at no time are two fetchData cycles in flight at once (a trigger that
\* fires while a cycle is in flight is skipped).
C8_NoOverlappingCycles == BagCardinality(calls) <= 1

\* the step is the synchronous end of the cycle of a call that was passed
\* the rows r: load, update, save, return
CycleStepOf(r) ==
  \E b \in Blocks :
    /\ BagIn(AwaitDepegThreshold(r, b), calls)
    /\ calls' = calls (-) SetToBag({AwaitDepegThreshold(r, b)})

CycleStep == \E r \in AppResponses : CycleStepOf(r)

\* the complete log of a cycle ending now: every route of the call applied to
\* the log read at its start
CompleteLog(r, readOk) ==
  updateRouteEvents(loadRouteEvents(store, readOk), CycleRoutes(r), clock')

\* C9: the store changes only at the end of a cycle, once per cycle, and then
\* to the complete log of that cycle (every route applied), or when Clear
\* History removes the item; no other content ever appears in it.
C9_AllOrNothing ==
  [][store' # store =>
       \/ store' = NoItem /\ ~CycleStep
       \/ \E r \in AppResponses, readOk \in BOOLEAN :
            /\ CycleStepOf(r)
            /\ store' = [present |-> TRUE,
                         text |-> JSONstringify(CompleteLog(r, readOk))]]_vars

\* C9 witness: the store holds the log of a cycle that applied two routes: it
\* closed the record of one and opened a record for the other.
C9_Witness ==
  /\ cycle.ran /\ cycle.saved
  /\ Log = cycle.metrics.routeOpenEvents
  /\ \E i \in 1..Len(cycle.storedEvents), j \in 1..Len(Log) :
       /\ IsUnclosed(cycle.storedEvents[i])
       /\ Log[i].closedAt = cycle.now
       /\ j > Len(cycle.storedEvents)
       /\ Log[j].route # Log[i].route

\* C10: a cycle (here one that runs with no other call pending) never removes
\* a record from the store; also when reading or writing the store fails,
\* every record of the store before the cycle is in the store after it.
C10_CyclesKeepRecords ==
  [][(CycleStep /\ BagCardinality(calls) = 1) =>
       \A i \in 1..Len(Log) :
         /\ i <= Len(Log')
         /\ Log'[i].id = Log[i].id
         /\ Log'[i].route = Log[i].route
         /\ Log'[i].openedAt = Log[i].openedAt]_vars

\* C22: a cycle whose read of the persisted log fails runs to its end with an
\* empty log: what it returns is the update of the empty log, in which every
\* route that is open has one record, unclosed and opened now, and the
\* statistics count the records of that log alone (none of them closed); the
\* call ends without an error.
C22_FailedReadStartsEmpty ==
  [][\A r \in AppResponses :
       (CycleStepOf(r) /\ ~cycle'.read) =>
         LET routes == CycleRoutes(r)
             events == cycle'.metrics.routeOpenEvents
         IN /\ cycle'.ran /\ ~loading' /\ error' = error
            /\ cycle'.metrics.routes = routes
            /\ events = updateRouteEvents(<<>>, routes, clock')
            /\ \A k \in 1..Len(routes) :
                 routes[k].isOpen =>
                   \E i \in 1..Len(events) :
                     /\ events[i].route = routeNameOf(routes[k])
                     /\ events[i].openedAt = clock'
                     /\ events[i].closedAt = Null
            /\ \A i \in 1..Len(events) :
                 /\ events[i].openedAt = clock'
                 /\ events[i].closedAt = Null
            /\ cycle'.metrics.totalTimesOpened = Len(events)
            /\ cycle'.metrics.totalOpenDurationMs = 0
            /\ cycle'.metrics.averageOpenDurationMs = NullAverage]_vars

\* C22 witness: the store held a closed record, the read of the last cycle
\* failed, and the cycle returned a log of one fresh record.
C22_Witness ==
  /\ cycle.ran /\ ~cycle.read
  /\ cycle.storedEvents = <<>>
  /\ Len(cycle.metrics.routeOpenEvents) = 1
  /\ cycle.metrics.routeOpenEvents[1].closedAt = Null
  /\ cycle.metrics.anyRouteOpen
  /\ ~cycle.saved
  /\ \E i \in 1..Len(Log) : Log[i].closedAt # Null

\* C23: when the write of a cycle failed, the next cycle to end (its own read
\* succeeding, the item not removed by Clear History in between) starts from
\* the log the failed cycle returned, so that the records the failed cycle
\* opened or closed keep their openedAt and closedAt.
C23_FailedWriteKeepsLog ==
  [][(CycleStep /\ cycle.ran /\ ~cycle.saved /\ store.present /\ cycle'.read) =>
       cycle'.storedEvents = cycle.metrics.routeOpenEvents]_vars

\* C28: with any number of fetchData calls pending, a cycle that reads the
\* store and writes back does both in one step: it reads the log the store
\* holds then (the one the last update left there), and the store holds its
\* update of exactly that log afterwards, which is also what it returns.
C28_NoLostUpdate ==
  [][\A r \in AppResponses :
       (CycleStepOf(r) /\ cycle'.read /\ cycle'.saved) =>
         /\ cycle'.storedEvents = Log
         /\ Log' = updateRouteEvents(Log, CycleRoutes(r), clock')
         /\ Log' = cycle'.metrics.routeOpenEvents]_vars

\* C28 witness: two calls overlapped; one has ended its cycle, which closed a
\* record an earlier cycle had left in the store, and the other is still
\* waiting in getRouteStatusMetrics.
C28_Witness ==
  /\ cycle.ran /\ cycle.read /\ cycle.saved
  /\ \E r \in AppResponses, b \in Blocks : BagIn(AwaitDepegThreshold(r, b), calls)
  /\ Log = cycle.metrics.routeOpenEvents
  /\ \E i \in 1..Len(cycle.storedEvents) :
       /\ IsUnclosed(cycle.storedEvents[i])
       /\ ~IsUnclosed(Log[i])

\* C29: whatever the interleaving of the fetchData calls, the lastBlock of
\* the displayed metrics never decreases, and the route status a cycle applies
\* to the log and displays never comes from a snapshot older than the one of
\* the cycle before it.
C29_DisplayNeverRegresses ==
  [][/\ (~metrics.isNull /\ ~metrics'.isNull) => metrics'.lastBlock >= metrics.lastBlock
     /\ (cycle.ran /\ cycle'.ran) => cycle'.lastBlock >= cycle.lastBlock]_vars

\* the step is the catch and finally of a call whose getAllMetrics rejected
RejectStep ==
  \E b \in Blocks :
    /\ BagIn(AwaitAllMetrics(b), calls)
    /\ calls' = calls (-) SetToBag({AwaitAllMetrics(b)})

\* C12: when getAllMetrics rejects (the block height was not obtained), the
\* step keeps the displayed metrics and route status, neither reads nor
\* writes the persisted log, records an error and ends the loading; and
\* whenever an error is recorded the timer can start a fresh cycle.
C12_FailedCycleKeepsDisplay ==
  /\ [][RejectStep =>
          /\ metrics' = metrics
          /\ cycle' = cycle
          /\ store' = store
          /\ error' /\ ~loading']_vars
  /\ [](error => ENABLED IntervalTick)

\* C12 witness: an error is recorded while metrics, a route status and a
\* persisted log with a record are in place.
C12_Witness ==
  /\ error /\ ~loading
  /\ ~metrics.isNull
  /\ routeStatusSet
  /\ Len(Log) > 0

\* C13: once every cycle has completed, the displayed route status is the one
\* computed from the oracle prices of the displayed metrics snapshot (each
\* call passes the oraclePrices of its own snapshot to getRouteStatusMetrics).
C13_SamePriceSnapshot ==
  (routeStatusSet /\ calls = EmptyBag) =>
    cycle.metrics.routes = CycleRoutes(metrics.oraclePrices)

\* ------------------------------------------------------------------------
\* Properties of the aggregation
\* ------------------------------------------------------------------------

\* the five event queries of getAllMetrics
EventQueries ==
  {"getSwapEvents", "getIOUMintEvents", "getIOUBurnEvents", "getVaultCreationEvents",
   "getDepositEvents"}

\* the answers with the logs of every failed event query empty and that
\* query not failing
Degraded(rpc) ==
  [rpc EXCEPT
     !.failed = rpc.failed \ EventQueries,
     !.swapLogs = IF Throws(rpc, "getSwapEvents") THEN <<>> ELSE @,
     !.mintLogs = IF Throws(rpc, "getIOUMintEvents") THEN <<>> ELSE @,
     !.burnLogs = IF Throws(rpc, "getIOUBurnEvents") THEN <<>> ELSE @,
     !.vaultLogs = IF Throws(rpc, "getVaultCreationEvents") THEN 0 ELSE @,
     !.depositLogs = IF Throws(rpc, "getDepositEvents") THEN <<>> ELSE @]

\* C11: when the block height was obtained, getAllMetrics resolves whichever
\* event query failed, and its snapshot is the one computed with the failed
\* query's events empty and everything else as answered.
C11_SubStreamFailureDegrades ==
  (snapshot # NoSnapshot /\ ~Throws(chain, "getLatestBlock")) =>
    /\ snapshot.status = "resolved"
    /\ snapshot = getAllMetrics(Degraded(chain))

\* the sum of f[i] over the indices i in S
RECURSIVE SumOver(_, _)
SumOver(f, S) ==
  IF S = {} THEN 0
  ELSE LET i == CHOOSE i \in S : TRUE
       IN f[i] + SumOver(f, S \ {i})

\* the swap events of the call and their amountIn
SwapsOfCall == getSwapEvents(chain)

AmountsIn == [i \in 1..Len(SwapsOfCall) |-> SwapsOfCall[i].amountIn]

\* the mint events of the call and their amounts
MintsOfCall == MintEventsOf(chain.mintLogs)

MintAmounts == [i \in 1..Len(MintsOfCall) |-> MintsOfCall[i].amount]

\* C14: the native-unit totalSwapVolume of a call is the sum of amountIn over
\* its swap events, and the loop computes the same total over every
\* permutation of the events.
C14_TotalIsOrderFreeSum ==
  snapshot.status = "resolved" =>
    /\ snapshot.value.totalSwapVolume = SumOver(AmountsIn, 1..Len(SwapsOfCall))
    /\ \A p \in Permutations(1..Len(SwapsOfCall)) :
         SwapLoop([i \in 1..Len(SwapsOfCall) |-> SwapsOfCall[p[i]]],
                  Len(SwapsOfCall)).totalSwapVolume
           = snapshot.value.totalSwapVolume

\* C14 witness: a call summed two swaps of different amounts.
C14_Witness ==
  /\ snapshot.status = "resolved"
  /\ Len(SwapsOfCall) >= 2
  /\ SwapsOfCall[1].amountIn # SwapsOfCall[2].amountIn
  /\ snapshot.value.totalSwapVolume = SwapsOfCall[1].amountIn + SwapsOfCall[2].amountIn

\* days since 1970-01-01 of a calendar day
DaysFromCivil(date) ==
  LET y == IF date.month <= 2 THEN date.year - 1 ELSE date.year
      era == y \div 400
      yoe == y % 400
      mp == IF date.month > 2 THEN date.month - 3 ELSE date.month + 9
      doy == (153 * mp + 2) \div 5 + date.day - 1
      doe == yoe * 365 + yoe \div 4 - yoe \div 100 + doy
  IN era * 146097 + doe - 719468

\* dailyMap partitions the amounts of events by UTC day: its dates are
\* distinct, every bucket holds the sum of the amounts of the events of its
\* day (one at least), every event has the bucket of its day, and the buckets
\* add up to total
Partitions(dailyMap, events, amounts, total) ==
  LET OfDay(k) == {i \in 1..Len(events) :
                     events[i].timestamp \div 86400 = DaysFromCivil(dailyMap[k].date)}
  IN /\ \A j, k \in 1..Len(dailyMap) : dailyMap[j].date = dailyMap[k].date => j = k
     /\ \A k \in 1..Len(dailyMap) :
          OfDay(k) # {} /\ dailyMap[k].value = SumOver(amounts, OfDay(k))
     /\ \A i \in 1..Len(events) : \E k \in 1..Len(dailyMap) : i \in OfDay(k)
     /\ SumOver([k \in 1..Len(dailyMap) |-> dailyMap[k].value], 1..Len(dailyMap)) = total

\* C15: the native-unit daily swap buckets partition totalSwapVolume by the
\* UTC day of each swap's timestamp, exactly; the daily IOU-minted buckets
\* partition the minted total in the same way.
C15_DailyBucketsPartition ==
  snapshot.status = "resolved" =>
    /\ Partitions(snapshot.value.dailySwapMap, SwapsOfCall, AmountsIn,
                  snapshot.value.totalSwapVolume)
    /\ Partitions(snapshot.value.dailyMintMap, MintsOfCall, MintAmounts,
                  snapshot.value.totalIOUMintedUnits)

\* C15 witness: two swaps of 1 and 2.5 ether on 2023-11-14 share one bucket
\* of 3.5 ether, and two mints fall on the two sides of midnight.
C15_Witness ==
  /\ snapshot.status = "resolved"
  /\ Len(SwapsOfCall) = 2
  /\ snapshot.value.dailySwapMap
       = <<[date |-> [year |-> 2023, month |-> 11, day |-> 14], value |-> 350]>>
  /\ Len(snapshot.value.dailyMintMap) = 2

\* the UTC day (days since 1970-01-01) among those of the events whose text
\* "YYYY-MM-DD" is given
DayOfText(text, events) ==
  CHOOSE d \in {events[i].timestamp \div 86400 : i \in 1..Len(events)} :
    DateText(CivilDate(d * 86400)) = text

\* series lists the UTC days of the events, each once, earliest first
ListsDays(series, events) ==
  /\ \A k \in 1..Len(series) :
       \E i \in 1..Len(events) :
         DateText(CivilDate(events[i].timestamp)) = series[k].date
  /\ \A i \in 1..Len(events) :
       \E k \in 1..Len(series) :
         series[k].date = DateText(CivilDate(events[i].timestamp))
  /\ \A j, k \in 1..Len(series) :
       j < k => DayOfText(series[j].date, events) < DayOfText(series[k].date, events)

\* events in the order p
Permuted(events, p) == [i \in 1..Len(events) |-> events[p[i]]]

\* C24: the dailySwapVolume and dailyIOUMinted series of a call hold a date
\* exactly when an event of their kind has its timestamp on that UTC day,
\* hold it once, and are in ascending order of date; the same is true of the
\* series computed from the events in any other order.
C24_DailySeriesSortedDistinct ==
  snapshot.status = "resolved" =>
    /\ ListsDays(snapshot.value.dailySwapVolume, SwapsOfCall)
    /\ ListsDays(snapshot.value.dailyIOUMinted, MintsOfCall)
    /\ \A p \in Permutations(1..Len(SwapsOfCall)) :
         ListsDays(DailySwapVolumeOf(SortByDate(DailySwapLoop(Permuted(SwapsOfCall, p),
                                                              Len(SwapsOfCall))),
                                     snapshot.value.ethPrice),
                   SwapsOfCall)
    /\ \A p \in Permutations(1..Len(MintsOfCall)) :
         ListsDays(DailyIOUMintedOf(SortByDate(DailyMintLoop(Permuted(MintsOfCall, p),
                                                             Len(MintsOfCall)))),
                   MintsOfCall)

\* C24 witness: the swap of 2023-11-15 came before the one of 2023-11-14, and
\* the series lists the 14th first.
C24_Witness ==
  /\ snapshot.status = "resolved"
  /\ Len(SwapsOfCall) = 2
  /\ SwapsOfCall[1].timestamp > SwapsOfCall[2].timestamp
  /\ Len(snapshot.value.dailySwapVolume) = 2
  /\ snapshot.value.dailySwapVolume[1].date = "2023-11-14"
  /\ snapshot.value.dailySwapVolume[2].date = "2023-11-15"

\* the account an address text spells: hexadecimal digits of either case
\* spell the same 20 bytes
AccountOf(address) ==
  CASE address = "0xAbC0000000000000000000000000000000000001" -> "abc...01"
    [] address = "0xabc0000000000000000000000000000000000001" -> "abc...01"
    [] address = "0xdef0000000000000000000000000000000000002" -> "def...02"

\* the receiver of every swap event and the sender of every Deposit log of
\* the call
UserAddresses ==
  {SwapsOfCall[i].receiver : i \in 1..Len(SwapsOfCall)}
    \cup {chain.depositLogs[i].sender : i \in 1..Len(chain.depositLogs)}

\* C25: activeUsers is the number of distinct accounts among the receivers of
\* the swap events and the senders of the deposits: an account that occurs
\* several times, in both kinds of event or in different letter case counts
\* once.
C25_ActiveUsersCountsAccounts ==
  snapshot.status = "resolved" =>
    snapshot.value.activeUsers = Cardinality({AccountOf(a) : a \in UserAddresses})

\* C25 witness: one account received two swaps under two spellings and made a
\* deposit, and activeUsers is 1.
C25_Witness ==
  /\ snapshot.status = "resolved"
  /\ Len(SwapsOfCall) = 2
  /\ SwapsOfCall[1].receiver = "0xAbC0000000000000000000000000000000000001"
  /\ SwapsOfCall[2].receiver = "0xabc0000000000000000000000000000000000001"
  /\ Len(chain.depositLogs) = 1
  /\ chain.depositLogs[1].sender = "0xAbC0000000000000000000000000000000000001"
  /\ snapshot.value.activeUsers = 1

\* the block range of the call holds no event, and every event query and
\* getBlockNumber answered
ZeroEvents ==
  /\ chain.failed \cap (EventQueries \cup {"getLatestBlock"}) = {}
  /\ Len(chain.swapLogs) = 0 /\ Len(chain.mintLogs) = 0
  /\ Len(chain.burnLogs) = 0 /\ Len(chain.depositLogs) = 0
  /\ chain.vaultLogs = 0

IsZeroText(text) == text \in {"0", "0.0", "0.00"}

\* the oracle prices of the snapshot hold no entry for the symbol
NoPriceFor(symbol) ==
  \A i \in 1..Len(snapshot.value.oraclePrices) :
    snapshot.value.oraclePrices[i].symbol # symbol

\* C17: in the snapshot of a call, every USD value of an asset that has no
\* price in that call is zero: swap volume and fees when no ETH price was
\* obtained; the balanceUSD of a reserve or of an allocation whose symbol has
\* no oracle entry; the TVL total when no allocation has a price.
C17_NoPriceMeansZeroUsd ==
  snapshot.status = "resolved" =>
    LET value == snapshot.value
    IN /\ value.ethPrice = 0 =>
            /\ IsZeroText(value.totalSwapVolumeUSD)
            /\ IsZeroText(value.protocolFeesUSD)
            /\ \A k \in 1..Len(value.dailySwapVolume) :
                 IsZeroText(value.dailySwapVolume[k].volumeUSD)
       /\ \A k \in 1..Len(value.reserveBalances) :
            NoPriceFor(value.reserveBalances[k].symbol) =>
              IsZeroText(value.reserveBalances[k].balanceUSD)
       /\ \A k \in 1..Len(value.tokenAllocations) :
            NoPriceFor(value.tokenAllocations[k].symbol) =>
              IsZeroText(value.tokenAllocations[k].balanceUSD)
       /\ (\A k \in 1..Len(value.tokenAllocations) :
             NoPriceFor(value.tokenAllocations[k].symbol)) =>
            IsZeroText(value.totalValueLockedUSD)

====
